---- MODULE Spec2Model ----
(***************************************************************************)
(* Session-aware HTTP/page pipeline of sigaa-api: the transport            *)
(* (SigaaHTTP), the bond-aware decorator (SigaaHTTPWithBond), the Bond     *)
(* Controller and the bond-scoped Page Cache behind the session hooks.     *)
(*                                                                         *)
(* Scheduling: single-threaded cooperative concurrency.  A call runs       *)
(* without interruption until it awaits a network exchange (requestHTTP);  *)
(* the promise continuations between two exchanges are microtasks that     *)
(* are drained before the next I/O callback runs.  One action of the model *)
(* is therefore the whole run of one call from one suspension to the next. *)
(***************************************************************************)
EXTENDS Integers, Sequences, FiniteSets, TLC

\* ------------------------------------------------------------------ bounds
MaxCalls == 3        \* decorator operations started in one behaviour
MaxContent == 2      \* distinct page bodies the portal may answer with
MaxFiles == 2        \* SigaaFile instances constructed in one behaviour
MaxReads == 2        \* accesses of viewState on one Page
MaxLen == 2          \* characters of a posted field value
MaxRows == 4         \* rows of the body of a courses table
MaxPeriods == 3      \* period labels of a courses table

\* --------------------------------------------------------------- the world
Procs == {1, 2}      \* call chains that may be in flight at the same time

None == "none"       \* absent header / absent value
NoBond == 0          \* BondController.currentBond === null

\* URLParser objects handed to decorators.  Objects 1 and 2 are two parses
\* of the same bond-switch URL, object 3 is the URL of another bond.
Href(o) == CASE o = 1 -> "A" [] o = 2 -> "A" [] o = 3 -> "B" [] OTHER -> None

\* Decorator instances: their bondSwitchUrl constructor argument.
Decorators == {1, 2, 3, 4}
bondSwitchUrl(d) == CASE d = 1 -> 1 [] d = 2 -> 2 [] d = 3 -> 3 [] OTHER -> NoBond

Paths == {"A", "B", "p", "q"}
ExpiredLocation == "/sigaa/expirada.jsp"

\* The portal never redirects in a loop: every path but "q" may redirect
\* to "q", and "q" redirects nowhere.
RedirectTargets(path) == IF path = "q" THEN {} ELSE {"q"}

\* Pages that do not depend on the enrollment context.
IsBondIndependent(path) == path = "q"

\* Arguments of one decorator operation.  For followAllRedirect `path' is
\* the Location header of the page handed in (None: the page has none).
CallArgs ==
       [op : {"get"}, path : {"p", "q"}, noCache : BOOLEAN]
  \cup [op : {"post"}, path : {"p"}, noCache : {FALSE}]
  \cup [op : {"postMultipart", "fileResponseByGet", "fileResponseByPost"},
        path : {"p"}, noCache : {FALSE}]
  \cup [op : {"followAllRedirect"}, path : {None, "p"}, noCache : BOOLEAN]

\* What one network exchange can yield: status 0 stands for a rejected
\* exchange (no response).  Only the body of "p" varies (content 0: the
\* response of a download carries no data).  A page request treats every
\* status but 200 and 302 like a 302 without Location.
Responses(req) ==
       [status : {200}, loc : {None},
        content : (IF req.path = "p" THEN 1..MaxContent ELSE {1})
                    \cup (IF req.purpose = "file" THEN {0} ELSE {})]
  \cup [status : {302},
        loc : RedirectTargets(req.path) \cup {None, ExpiredLocation},
        content : {1}]
  \cup [status : IF req.purpose = "file" THEN {0, 500} ELSE {0},
        loc : {None}, content : {1}]

Hooks == {"afterHTTPOptions", "beforeRequest", "afterSuccessfulRequest"}

\* ------------------------------------------------------------------- pages
NoPage == [method |-> None, path |-> None, status |-> 0, loc |-> None,
           content |-> 0]

\* CommonSigaaPage constructor: the fields of the response.
NewPage(method, path, resp) ==
  [method |-> method, path |-> path, status |-> resp.status, loc |-> resp.loc,
   content |-> resp.content]

\* The text of a Location header, cut into the pieces that matter here: the
\* origin, the path, and the query.  "abs" is the absolute URL of the
\* expired-session endpoint, "exp?" that endpoint with a query, and "ref" a
\* redirect to another page whose query names the endpoint.
Locations == {"q", ExpiredLocation, "abs", "exp?", "other", "ref"}
Text(loc) ==
  CASE loc = "abs" -> <<"https://host", ExpiredLocation>>
    [] loc = "exp?" -> <<ExpiredLocation, "?", "x=1">>
    [] loc = "other" -> <<"/sigaa/other.jsf">>
    [] loc = "ref" -> <<"/sigaa/other.jsf", "?", "from=", ExpiredLocation>>
    [] OTHER -> <<loc>>

\* String.prototype.includes on the text of a header.
includes(loc, searchString) ==
  \E i \in DOMAIN Text(loc) : Text(loc)[i] = searchString

\* CommonSigaaPage.checkPageStatusCodeAndExpired: TRUE when it throws
\* 'SIGAA: Session expired.'.
checkPageStatusCodeAndExpired(resp) ==
  /\ resp.status = 302
  /\ resp.loc # None
  /\ includes(resp.loc, ExpiredLocation)

\* ------------------------------------------------------------- page cache
Keys == ({"GET"} \X Paths) \cup {<<"POST", "p">>}
NoEntry == [page |-> NoPage, bond |-> NoBond, indep |-> FALSE, old |-> FALSE]
EmptyCache == [k \in Keys |-> NoEntry]

\* PageCache.getPage: an entry is eligible while the cache's current bond is
\* the bond it was stamped with, or when it is bond-independent.
getPage(cache, cacheBond, key) ==
  IF cache[key] # NoEntry /\ (cache[key].indep \/ cache[key].bond = cacheBond)
  THEN cache[key].page
  ELSE NoPage

\* PageCache.storePage: stamped with the bond active at store time, or
\* marked as bond-independent.
storePage(cache, cacheBond, page) ==
  [cache EXCEPT ![<<page.method, page.path>>] =
     [page |-> page,
      bond |-> IF IsBondIndependent(page.path) THEN NoBond ELSE cacheBond,
      indep |-> IsBondIndependent(page.path), old |-> FALSE]]

\* PageCacheWithBond.setCurrentBond: clears the bond-scoped portion.
\* (`old' is history: the entry was recorded before a bond switch.)
setCurrentBond(cache, bond) ==
  [k \in Keys |->
     IF cache[k] # NoEntry /\ cache[k].indep
     THEN [cache[k] EXCEPT !.old = TRUE]
     ELSE NoEntry]

\* A switch that leaves the cache alone only ages the entries.
AgeCache(cache) ==
  [k \in Keys |-> IF cache[k] # NoEntry THEN [cache[k] EXCEPT !.old = TRUE]
                  ELSE NoEntry]

\* HTTPSession.beforeRequest: the cached page, unless the caller asked for
\* noCache.
beforeRequest(cache, cacheBond, req) ==
  IF req.noCache THEN NoPage
  ELSE getPage(cache, cacheBond, <<req.method, req.path>>)

\* ------------------------------------------------------------------ state
VARIABLES
  currentBond,   \* SigaaBondController._currentBond
  cacheBond,     \* the Page Cache's current bond
  cache,         \* the Page Cache
  procs,         \* the call chains: position and locals of each
  ncalls,        \* decorator operations started so far
  lastGet,       \* history: the last plain get that completed, if nothing
                 \* else happened since
  optionsHook,   \* what the session's afterHTTPOptions returns: the object
                 \* it was given ("same") or a copy of it ("new")
  ctor,          \* a Page construction: the response and what it gave
  view,          \* a Page whose viewState is read
  enc,           \* a string (a posted field) and what the encoder made of it
  bond,          \* a student bond: the pages it is served and its call
  heap,          \* the SigaaFile instances that were constructed
  store,         \* the Maps of sharedReturn: natural id -> instance
  firstOf,       \* history: the instance first returned for a natural id
                 \* by a factory object's method
  dl,            \* the download call in flight on a SigaaFile
  last           \* the last resource operation and what the caller got

sessionVars == <<currentBond, cacheBond, cache, procs, ncalls, lastGet,
                 optionsHook>>
resourceVars == <<ctor, view, enc, bond, heap, store, firstOf, dl, last>>
vars == <<currentBond, cacheBond, cache, procs, ncalls, lastGet, optionsHook,
          ctor, view, enc, bond, heap, store, firstOf, dl, last>>

NoReq == [method |-> None, path |-> None, noCache |-> FALSE,
          postForm |-> FALSE, purpose |-> None]
NoHit == [purpose |-> None, path |-> None, noCache |-> FALSE, old |-> FALSE,
          indep |-> FALSE]
NoGet == [dec |-> 0, path |-> None, content |-> 0]
NoGot == [settled |-> FALSE, status |-> 0, content |-> 0]

\* A call chain that has not been used yet.
Idle ==
  [pc |-> "idle", dec |-> 0, op |-> None, path |-> None, noCache |-> FALSE,
   req |-> NoReq, page |-> NoPage, err |-> None, failAt |-> None,
   \* history of the current call
   callBond |-> NoBond,        \* current bond when the call was made
   alone |-> FALSE,            \* no other call was in flight during it
   sw |-> None,                \* its switch: none, inflight, ok, failed
   swGets |-> 0,               \* GETs of the bond-switch URL it asked for
   swStatus |-> 0,             \* status of the last page of its switch
   hadEntry |-> FALSE,         \* its switch found the page it asks for cached
   started |-> FALSE,          \* the wrapped operation was called
   startBond |-> NoBond,       \* current bond when the wrapped op started
   issuedBond |-> NoBond,      \* current bond when the exchange in flight left
   hit |-> NoHit,              \* its last answer from the cache
   trace |-> << >>,            \* hook calls of its last requestPage
   failed |-> None,            \* the step of requestPage that failed
   sent |-> 0,                 \* HTTP requests its last requestHTTP sent
   httpOptions |-> {},         \* headers of the options its operation built
   sessionHttpOptions |-> {},  \* headers of the options the hook returned
   headers |-> {},             \* headers of the request requestHTTP sent
   got |-> NoGot,              \* the response its download settled on
   expect |-> 0]               \* body an identical earlier get returned

\* --------------------------------------------------- SigaaHTTP (transport)
\* SigaaHTTP.getRequestBasicOptions: the names of the headers it sets.
BasicHeaders == {"User-Agent", "Accept-Encoding", "Accept", "Cache-Control",
                 "DNT"}

\* HTTPSession.afterHTTPOptions: the session adds its Cookie header, to the
\* object it was given or to a copy that it returns.
afterHTTPOptions(st) ==
  [st EXCEPT !.l.httpOptions = IF st.hook = "same" THEN BasicHeaders \cup {"Cookie"}
                               ELSE BasicHeaders,
             !.l.sessionHttpOptions = BasicHeaders \cup {"Cookie"},
             !.l.trace = <<"afterHTTPOptions">>]

\* SigaaHTTP.get: build the options and hand over to requestPage.
get(st, path, noCache, purpose) ==
  [st EXCEPT !.l.req = [method |-> "GET", path |-> path, noCache |-> noCache,
                        postForm |-> FALSE, purpose |-> purpose],
             !.l.pc = "requestPage"]

\* SigaaHTTP.post
post(st, path, noCache, purpose) ==
  [st EXCEPT !.l.req = [method |-> "POST", path |-> path, noCache |-> noCache,
                        postForm |-> FALSE, purpose |-> purpose],
             !.l.pc = "requestPage"]

\* SigaaHTTP.postMultipart: requestPage(url, httpOptions, buffer, undefined,
\* true): the caller's options do not reach the hooks.
postMultipart(st, path, purpose) ==
  [st EXCEPT !.l.req = [method |-> "POST", path |-> path, noCache |-> FALSE,
                        postForm |-> TRUE, purpose |-> purpose],
             !.l.pc = "requestPage"]

\* SigaaHTTP.fileResponseByGet / fileResponseByPost
fileResponseByGet(st, path) ==
  [st EXCEPT !.l.req = [method |-> "GET", path |-> path, noCache |-> FALSE,
                        postForm |-> FALSE, purpose |-> "file"],
             !.l.pc = "getFileResponse"]

fileResponseByPost(st, path) ==
  [st EXCEPT !.l.req = [method |-> "POST", path |-> path, noCache |-> FALSE,
                        postForm |-> FALSE, purpose |-> "file"],
             !.l.pc = "getFileResponse"]

\* SigaaHTTP.requestHTTP: the request leaves and the call chain is
\* suspended until the exchange settles.  Both callers pass httpOptions.
requestHTTP(st) ==
  [st EXCEPT !.l.pc = "wait", !.l.page = NoPage,
             !.l.headers = st.l.httpOptions,
             !.l.issuedBond = st.cur,
             !.l.sent = IF st.l.req.postForm THEN 2 ELSE 1,
             !.l.trace = Append(@, "requestHTTP")]

\* HTTPSession.afterSuccessfulRequest: cache population.  Its promise is
\* returned from inside the try block without being awaited, so a
\* rejection does not reach the catch clause of requestPage.
afterSuccessfulRequest(st, page) ==
  IF st.l.failAt = "afterSuccessfulRequest"
  THEN [st EXCEPT !.l.trace = Append(@, "afterSuccessfulRequest"),
                  !.l.failAt = None, !.l.err = "hook",
                  !.l.failed = "afterSuccessfulRequest", !.l.pc = "throw"]
  ELSE [st EXCEPT !.cache = storePage(st.cache, st.cb, page),
                  !.l.trace = Append(@, "afterSuccessfulRequest"),
                  !.l.page = page,
                  !.l.pc = IF st.l.req.purpose = "operation" THEN "return"
                           ELSE "followAllRedirect"]

\* The catch clause of requestPage.
catch(st, err, step) ==
  [st EXCEPT !.l.err = err, !.l.failed = step, !.l.failAt = None,
             !.l.pc = "afterUnsuccessfulRequest"]

\* HTTPSession.afterUnsuccessfulRequest: the error is thrown again.
afterUnsuccessfulRequest(st) ==
  [st EXCEPT !.l.trace = Append(@, "afterUnsuccessfulRequest"),
             !.l.pc = "throw"]

\* requestPage that sends the request although beforeRequest gave a page.
requestPage_noShortCircuit(st) ==
  requestHTTP([afterHTTPOptions(st) EXCEPT
                 !.l.trace = <<"afterHTTPOptions", "beforeRequest">>])

\* SigaaHTTP.requestPage up to the network exchange.
requestPage(st) ==
  LET t1 == [afterHTTPOptions(st) EXCEPT !.l.sent = 0]
      t2 == [t1 EXCEPT !.l.trace = Append(@, "beforeRequest")]
      pageBeforeRequest == beforeRequest(st.cache, st.cb, st.l.req)
      entry == st.cache[<<st.l.req.method, st.l.req.path>>]
  IN  IF st.l.failAt = "afterHTTPOptions" THEN catch(t1, "hook", "afterHTTPOptions")
      ELSE IF st.l.failAt = "beforeRequest" THEN catch(t2, "hook", "beforeRequest")
      ELSE IF pageBeforeRequest # NoPage
      THEN afterSuccessfulRequest(
             [t2 EXCEPT !.l.hit = [purpose |-> st.l.req.purpose,
                                   path |-> st.l.req.path,
                                   noCache |-> st.l.req.noCache,
                                   old |-> entry.old, indep |-> entry.indep]],
             pageBeforeRequest)
      ELSE requestHTTP(t2)

\* requestPage that hands the page of every response on.
requestPageResponse_noExpiryCheck(st, resp) ==
  IF resp.status = 0 THEN catch(st, "network", "requestHTTP")
  ELSE afterSuccessfulRequest(st,
         NewPage(st.l.req.method, st.l.req.path, resp))

\* SigaaHTTP.requestPage after the network exchange: the Page is built
\* (which fails on the expired-session redirect) and handed to
\* afterSuccessfulRequest.
requestPageResponse(st, resp) ==
  IF resp.status = 0 THEN catch(st, "network", "requestHTTP")
  ELSE IF checkPageStatusCodeAndExpired(resp) THEN catch(st, "expired", "page")
  ELSE afterSuccessfulRequest(st,
         NewPage(st.l.req.method, st.l.req.path, resp))

\* SigaaHTTP.getFileResponse up to the network exchange (no try/catch, no
\* beforeRequest).
getFileResponse(st) ==
  IF st.l.failAt = "afterHTTPOptions"
  THEN [st EXCEPT !.l.trace = <<"afterHTTPOptions">>, !.l.err = "hook",
                  !.l.failed = "afterHTTPOptions", !.l.failAt = None,
                  !.l.pc = "throw"]
  ELSE requestHTTP(afterHTTPOptions(st))

\* getFileResponse that has one error for every status but 200.
getFileResponseResponse_oneError(st, resp) ==
  LET s1 == [st EXCEPT !.l.got = [settled |-> TRUE, status |-> resp.status,
                                  content |-> resp.content]]
  IN  IF resp.status = 0 THEN [s1 EXCEPT !.l.err = "network", !.l.pc = "throw"]
      ELSE IF resp.status # 200
      THEN [s1 EXCEPT !.l.err = "badStatus", !.l.pc = "throw"]
      ELSE IF resp.content = 0
      THEN [s1 EXCEPT !.l.err = "invalidResponseType", !.l.pc = "throw"]
      ELSE [s1 EXCEPT !.l.page = NewPage(st.l.req.method, st.l.req.path, resp),
                      !.l.pc = "return"]

\* SigaaHTTP.getFileResponse after the network exchange.
getFileResponseResponse(st, resp) ==
  LET s1 == [st EXCEPT !.l.got = [settled |-> TRUE, status |-> resp.status,
                                  content |-> resp.content]]
  IN  IF resp.status = 0 THEN [s1 EXCEPT !.l.err = "network", !.l.pc = "throw"]
      ELSE IF resp.status = 302
      THEN [s1 EXCEPT !.l.err = "downloadExpired", !.l.pc = "throw"]
      ELSE IF resp.status # 200
      THEN [s1 EXCEPT !.l.err = "badStatus", !.l.pc = "throw"]
      ELSE IF resp.content = 0
      THEN [s1 EXCEPT !.l.err = "invalidResponseType", !.l.pc = "throw"]
      ELSE [s1 EXCEPT !.l.page = NewPage(st.l.req.method, st.l.req.path, resp),
                      !.l.pc = "return"]

\* followAllRedirect that follows the hops without the caller's options.
followAllRedirect_dropOptions(st) ==
  IF st.l.page.loc # None
  THEN IF st.l.sw = "inflight"
       THEN get(st, st.l.page.loc, TRUE, "switchBond")
       ELSE get(st, st.l.page.loc, FALSE, "followAllRedirect")
  ELSE [st EXCEPT !.l.pc = IF st.l.sw = "inflight" THEN "switchBondCommit"
                           ELSE "return"]

\* SigaaHTTP.followAllRedirect: one turn of the while loop.  Inside a bond
\* switch the options are {noCache: true}, otherwise the caller's.
followAllRedirect(st) ==
  IF st.l.page.loc # None
  THEN IF st.l.sw = "inflight"
       THEN get(st, st.l.page.loc, TRUE, "switchBond")
       ELSE get(st, st.l.page.loc, st.l.noCache, "followAllRedirect")
  ELSE [st EXCEPT !.l.pc = IF st.l.sw = "inflight" THEN "switchBondCommit"
                           ELSE "return"]

\* ------------------------------------------- SigaaHTTPWithBond (decorator)
\* verifyIfBondIsCorrect that records the required bond as current itself.
verifyIfBondIsCorrect_assign(st) ==
  IF bondSwitchUrl(st.l.dec) # st.cur
  THEN [st EXCEPT !.cur = bondSwitchUrl(st.l.dec), !.l.pc = "wrapped"]
  ELSE [st EXCEPT !.l.pc = "wrapped"]

\* verifyIfBondIsCorrect: the two URLParser references are compared with !==.
verifyIfBondIsCorrect(st) ==
  IF bondSwitchUrl(st.l.dec) # st.cur
  THEN [st EXCEPT !.l.pc = "switchBond"]
  ELSE [st EXCEPT !.l.pc = "wrapped"]

\* switchBond that asks for the bond-switch URL without noCache.
switchBond_cached(st) ==
  IF bondSwitchUrl(st.l.dec) # NoBond
  THEN get([st EXCEPT !.l.sw = "inflight", !.l.swGets = @ + 1],
           Href(bondSwitchUrl(st.l.dec)), FALSE, "switchBond")
  ELSE [st EXCEPT !.l.pc = "wrapped"]

\* switchBond, first statement: GET of the bond-switch URL, noCache.
switchBond(st) ==
  IF bondSwitchUrl(st.l.dec) # NoBond
  THEN get([st EXCEPT !.l.sw = "inflight", !.l.swGets = @ + 1],
           Href(bondSwitchUrl(st.l.dec)), TRUE, "switchBond")
  ELSE [st EXCEPT !.l.pc = "wrapped"]

\* History: the page the wrapped get asks for is cached under the bond
\* that the switch is leaving.
HadEntry(st) ==
  /\ st.l.op = "get"
  /\ st.cache[<<"GET", st.l.path>>] # NoEntry
  /\ ~st.cache[<<"GET", st.l.path>>].indep

\* switchBond that commits the bond before it looks at the status.
switchBondCommit_commitFirst(st) ==
  LET s1 == [st EXCEPT !.cur = bondSwitchUrl(st.l.dec),
                       !.cb = bondSwitchUrl(st.l.dec),
                       !.cache = setCurrentBond(st.cache, bondSwitchUrl(st.l.dec)),
                       !.l.swStatus = st.l.page.status,
                       !.l.hadEntry = HadEntry(st)]
  IN  IF st.l.page.status # 200
      THEN [s1 EXCEPT !.l.err = "switchFailed", !.l.pc = "throw"]
      ELSE [s1 EXCEPT !.l.sw = "ok", !.l.page = NoPage, !.l.pc = "wrapped"]

\* switchBond that does not throw on a bad status.
switchBondCommit_noThrow(st) ==
  IF st.l.page.status # 200
  THEN [st EXCEPT !.l.sw = "failed", !.l.swStatus = st.l.page.status,
                  !.l.page = NoPage, !.l.pc = "wrapped"]
  ELSE [st EXCEPT !.cur = bondSwitchUrl(st.l.dec),
                  !.cb = bondSwitchUrl(st.l.dec),
                  !.cache = setCurrentBond(st.cache, bondSwitchUrl(st.l.dec)),
                  !.l.swStatus = st.l.page.status,
                  !.l.hadEntry = HadEntry(st),
                  !.l.sw = "ok", !.l.page = NoPage, !.l.pc = "wrapped"]

\* switchBond that does not tell the page cache about the new bond.
switchBondCommit_keepCache(st) ==
  IF st.l.page.status # 200
  THEN [st EXCEPT !.l.err = "switchFailed", !.l.pc = "throw",
                  !.l.swStatus = st.l.page.status]
  ELSE [st EXCEPT !.cur = bondSwitchUrl(st.l.dec),
                  !.cache = AgeCache(st.cache),
                  !.l.swStatus = st.l.page.status,
                  !.l.hadEntry = HadEntry(st),
                  !.l.sw = "ok", !.l.page = NoPage, !.l.pc = "wrapped"]

\* switchBond that empties the whole page cache.
switchBondCommit_clearAll(st) ==
  IF st.l.page.status # 200
  THEN [st EXCEPT !.l.err = "switchFailed", !.l.pc = "throw",
                  !.l.swStatus = st.l.page.status]
  ELSE [st EXCEPT !.cur = bondSwitchUrl(st.l.dec),
                  !.cb = bondSwitchUrl(st.l.dec),
                  !.cache = EmptyCache,
                  !.l.swStatus = st.l.page.status,
                  !.l.hadEntry = HadEntry(st),
                  !.l.sw = "ok", !.l.page = NoPage, !.l.pc = "wrapped"]

\* switchBond that refuses to switch to the bond that is already current.
switchBondCommit_failIfCurrent(st) ==
  IF st.l.page.status # 200 \/ st.cur = bondSwitchUrl(st.l.dec)
  THEN [st EXCEPT !.l.err = "switchFailed", !.l.pc = "throw",
                  !.l.swStatus = st.l.page.status]
  ELSE [st EXCEPT !.cur = bondSwitchUrl(st.l.dec),
                  !.l.swStatus = st.l.page.status,
                  !.l.hadEntry = HadEntry(st),
                  !.cb = bondSwitchUrl(st.l.dec),
                  !.cache = setCurrentBond(st.cache, bondSwitchUrl(st.l.dec)),
                  !.l.sw = "ok", !.l.page = NoPage, !.l.pc = "wrapped"]

\* switchBond that tells the page cache about the bond before the status
\* check.
switchBondCommit_cacheFirst(st) ==
  LET s1 == [st EXCEPT !.cb = bondSwitchUrl(st.l.dec),
                       !.cache = setCurrentBond(st.cache, bondSwitchUrl(st.l.dec)),
                       !.l.swStatus = st.l.page.status,
                       !.l.hadEntry = HadEntry(st)]
  IN  IF st.l.page.status # 200
      THEN [s1 EXCEPT !.l.err = "switchFailed", !.l.pc = "throw"]
      ELSE [s1 EXCEPT !.cur = bondSwitchUrl(st.l.dec),
                      !.l.sw = "ok", !.l.page = NoPage, !.l.pc = "wrapped"]

\* switchBond, after followAllRedirect: the status check and the commit.
switchBondCommit(st) ==
  IF st.l.page.status # 200
  THEN [st EXCEPT !.l.err = "switchFailed", !.l.pc = "throw",
                  !.l.swStatus = st.l.page.status]
  ELSE [st EXCEPT !.cur = bondSwitchUrl(st.l.dec),
                  !.l.swStatus = st.l.page.status,
                  !.l.hadEntry = HadEntry(st),
                  !.cb = bondSwitchUrl(st.l.dec),
                  !.cache = setCurrentBond(st.cache, bondSwitchUrl(st.l.dec)),
                  !.l.sw = "ok", !.l.page = NoPage, !.l.pc = "wrapped"]

\* The page handed to followAllRedirect by the caller.
ArgPage(loc) ==
  [method |-> "GET", path |-> None, status |-> IF loc = None THEN 200 ELSE 302,
   loc |-> loc, content |-> 1]

\* The operations of the decorator after `await verifyIfBondIsCorrect()':
\* the call of the wrapped transport operation.
wrapped(st) ==
  LET s1 == [st EXCEPT !.l.started = TRUE, !.l.startBond = st.cur]
      op == st.l.op
  IN  CASE op = "get" -> get(s1, st.l.path, st.l.noCache, "operation")
        [] op = "post" -> post(s1, st.l.path, st.l.noCache, "operation")
        [] op = "postMultipart" -> postMultipart(s1, st.l.path, "operation")
        [] op = "fileResponseByGet" -> fileResponseByGet(s1, st.l.path)
        [] op = "fileResponseByPost" -> fileResponseByPost(s1, st.l.path)
        [] OTHER -> [s1 EXCEPT !.l.page = ArgPage(st.l.path),
                               !.l.pc = "followAllRedirect"]

\* An error leaves the call: the promise of the operation is rejected.
throw(st) ==
  [st EXCEPT !.l.pc = "failed", !.l.page = NoPage, !.l.req = NoReq,
             !.l.issuedBond = NoBond,
             !.l.sw = IF @ = "inflight" THEN "failed" ELSE @]

\* The promise of the operation is fulfilled with the page.
return(st) ==
  [st EXCEPT !.l.pc = "done", !.l.req = NoReq, !.l.issuedBond = NoBond]

\* ------------------------------------------------ running one call chain
Step(st) ==
  CASE st.l.pc = "verify" -> verifyIfBondIsCorrect(st)
    [] st.l.pc = "switchBond" -> switchBond(st)
    [] st.l.pc = "switchBondCommit" -> switchBondCommit(st)
    [] st.l.pc = "wrapped" -> wrapped(st)
    [] st.l.pc = "requestPage" -> requestPage(st)
    [] st.l.pc = "getFileResponse" -> getFileResponse(st)
    [] st.l.pc = "followAllRedirect" -> followAllRedirect(st)
    [] st.l.pc = "afterUnsuccessfulRequest" -> afterUnsuccessfulRequest(st)
    [] st.l.pc = "throw" -> throw(st)
    [] st.l.pc = "return" -> return(st)

\* Runs the call chain until it awaits the network or settles.
RECURSIVE Run(_)
Run(st) ==
  IF st.l.pc \in {"wait", "done", "failed"}
  THEN [st EXCEPT !.l.failAt = None]
  ELSE Run(Step(st))

World(l) ==
  [cur |-> currentBond, cb |-> cacheBond, cache |-> cache,
   hook |-> optionsHook, l |-> l]

PlainGet(l) == l.pc = "done" /\ l.op = "get" /\ ~l.noCache

Commit(p, st) ==
  /\ currentBond' = st.cur
  /\ cacheBond' = st.cb
  /\ cache' = st.cache
  /\ lastGet' = IF PlainGet(st.l)
                THEN [dec |-> st.l.dec, path |-> st.l.path,
                      content |-> st.l.page.content]
                ELSE NoGet
  /\ optionsHook' = optionsHook

\* --------------------------------------------------------- file resources
\* SigaaForm: action URL and the post values the file needs.
NoForm == [action |-> None, id |-> None, key |-> None]

\* A SigaaFile before its constructor called update.
NewFile ==
  [form |-> NoForm, title |-> None, description |-> None, id |-> None,
   key |-> None, isClosed |-> FALSE]

\* The natural ids of FileData ("" is an empty id) and its other values.
NaturalIds == {"", "42", "43"}

\* The places of a sharedReturn Map: this['__sharedReturn' + key] for a
\* factory object `this' and a decorated method `key'.  Two methods of one
\* object: the Maps of two objects are properties of different objects.
Targets == {<<1, "createFile">>, <<1, "createFileFromForm">>}
FileKeys == {"k1", "k2"}
Titles == {"t1", "t2"}
DescriptionOf(title) == IF title = "t1" THEN "d1" ELSE "d2"

Forms == [action : {"f"}, id : NaturalIds \ {""}, key : FileKeys \cup {None}]

\* FileDataKey: id and key; without a key the data is invalid.
FileDataKey(ids, keys) ==
  {[form |-> NoForm, id |-> id, key |-> key, title |-> title,
    description |-> DescriptionOf(title)] :
     id \in ids, key \in keys, title \in Titles}

\* FileDataForm: the form of the file and its natural id.
FileDataForm(forms) ==
  {[form |-> form, id |-> form.id, key |-> None, title |-> title,
    description |-> DescriptionOf(title)] :
     form \in forms, title \in Titles}

\* The snapshots a file is constructed and updated with.
FileData == FileDataKey(NaturalIds \ {""}, FileKeys \cup {None})
              \cup FileDataForm(Forms)

\* SigaaFile.update throws 'SIGAA: Invalid FileData.'
InvalidFileData(options) ==
  options.form = NoForm /\ (options.id = None \/ options.key = None)

\* update that leaves the closed flag alone.
update_keepClosed(f, options) ==
  LET f1 == [f EXCEPT !.title = options.title,
                      !.description = options.description]
  IN  IF options.form # NoForm
      THEN [f1 EXCEPT !.form = options.form, !.id = options.form.id,
                      !.key = options.form.key]
      ELSE IF options.id # None /\ options.key # None
      THEN [f1 EXCEPT !.id = options.id, !.key = options.key]
      ELSE f1

\* SigaaFile.update: the fields of the instance when it returns or throws.
update(f, options) ==
  LET f1 == [f EXCEPT !.title = options.title,
                      !.description = options.description]
  IN  IF options.form # NoForm
      THEN [f1 EXCEPT !.form = options.form, !.id = options.form.id,
                      !.key = options.form.key, !.isClosed = FALSE]
      ELSE IF options.id # None /\ options.key # None
      THEN [f1 EXCEPT !.id = options.id, !.key = options.key,
                      !.isClosed = FALSE]
      ELSE f1

\* AbstractUpdatableResource: close and the check of every accessor.
ClosedError == "InstanceClosedError"
close(f) == [f EXCEPT !.isClosed = TRUE]
checkIfItWasClosed(f) == f.isClosed

\* The getters of SigaaFile: the value, or the error that is thrown.
Accessors == {"title", "key", "description", "id"}
getter(f, name) ==
  IF checkIfItWasClosed(f) THEN ClosedError
  ELSE CASE name = "title" -> f.title
         [] name = "key" -> f.key
         [] name = "description" -> f.description
         [] name = "id" -> f.id

NoCtor == [status |-> 0, loc |-> None, content |-> 0, out |-> None]
NoDownload ==
  [pc |-> "idle", inst |-> 0, retry |-> FALSE, via |-> None, attempts |-> 0,
   err |-> None,
   \* history of the call
   errs |-> << >>,            \* the error of every attempt that failed
   vias |-> << >>,            \* the transport operation of every attempt
   refreshed |-> 0,           \* calls of updateInstance
   closedAtCall |-> FALSE,    \* the file was closed when download was called
   bareAtCall |-> FALSE,      \* it held no form and no key at that time
   issuedClosed |-> FALSE]    \* an attempt left while the file was closed
NoOp == [op |-> None]

NoView == [body |-> << >>, viewState |-> None, reads |-> 0, ret |-> None,
           threw |-> FALSE]
NoTable == [table |-> FALSE, headers |-> {}, rows |-> << >>]
NoStudentBond ==
  [coursesPage |-> NoTable, frontPage |-> NoTable, pc |-> "idle",
   allPeriods |-> FALSE, periodFilter |-> 0, err |-> None, list |-> << >>,
   created |-> 0]
NoEnc == [name |-> << >>, value |-> << >>, body |-> << >>, done |-> FALSE]

InitResources ==
  /\ ctor = NoCtor
  /\ view = NoView
  /\ enc = NoEnc
  /\ bond = NoStudentBond
  /\ heap = << >>
  /\ store = [t \in Targets |-> [id \in NaturalIds |-> 0]]
  /\ firstOf = [t \in Targets |-> [id \in NaturalIds |-> 0]]
  /\ dl = NoDownload
  /\ last = NoOp

\* ------------------------------------------------- sharedReturn decorator
\* The decorated method: new SigaaFile(http, data), whose constructor calls
\* update(data).  ret = 0: the constructor threw.
originalMethod(h, data) ==
  IF InvalidFileData(data)
  THEN [heap |-> h, ret |-> 0]
  ELSE [heap |-> Append(h, update(NewFile, data)), ret |-> Len(h) + 1]

\* sharedReturn that does not record the instance.
sharedReturn_noSet(h, st, data) ==
  LET made == originalMethod(h, data)
  IN  IF data.id = ""
      THEN [heap |-> made.heap, store |-> st, ret |-> made.ret,
            constructed |-> TRUE]
      ELSE IF st[data.id] # 0
      THEN [heap |-> h, store |-> st, ret |-> st[data.id],
            constructed |-> FALSE]
      ELSE [heap |-> made.heap, store |-> st, ret |-> made.ret,
            constructed |-> TRUE]

\* sharedReturn that constructs again on a hit and maps the id anew.
sharedReturn_replace(h, st, data) ==
  LET made == originalMethod(h, data)
  IN  IF data.id = ""
      THEN [heap |-> made.heap, store |-> st, ret |-> made.ret,
            constructed |-> TRUE]
      ELSE [heap |-> made.heap,
            store |-> IF made.ret # 0 THEN [st EXCEPT ![data.id] = made.ret]
                      ELSE st,
            ret |-> made.ret, constructed |-> TRUE]

\* The method that sharedReturn installs: args[0].id is the natural id, st
\* the Map of the object and method it is called on.
sharedReturn(h, st, data) ==
  LET made == originalMethod(h, data)
  IN  IF data.id = ""
      THEN [heap |-> made.heap, store |-> st, ret |-> made.ret,
            constructed |-> TRUE]
      ELSE IF st[data.id] # 0
      THEN [heap |-> h, store |-> st, ret |-> st[data.id],
            constructed |-> FALSE]
      ELSE [heap |-> made.heap,
            store |-> IF made.ret # 0 THEN [st EXCEPT ![data.id] = made.ret]
                      ELSE st,
            ret |-> made.ret, constructed |-> TRUE]

\* ---------------------------------------------------------------- actions
\* A settled promise: the continuation of the caller runs before any other
\* call or I/O callback.
Returning == \E q \in Procs : procs[q].pc \in {"done", "failed"}

InitSession ==
  /\ currentBond = NoBond
  /\ cacheBond = NoBond
  /\ cache = EmptyCache
  /\ procs = [p \in Procs |-> Idle]
  /\ ncalls = 0
  /\ lastGet = NoGet
  /\ optionsHook = "same"

Init ==
  /\ InitSession
  /\ InitResources

\* A caller invokes operation a.op of decorator d; `fail' is the session
\* hook that fails during this run, if any.
Call(p, d, a, fail, decs, args) ==
  /\ procs[p].pc = "idle"
  /\ ~Returning
  /\ d \in decs /\ a \in args
  /\ \A q \in Procs : q < p => procs[q].pc = "wait"
  /\ ncalls < MaxCalls
  /\ LET l0 == [Idle EXCEPT
                  !.pc = "verify", !.dec = d, !.op = a.op, !.path = a.path,
                  !.noCache = a.noCache, !.failAt = fail,
                  !.callBond = currentBond,
                  !.alone = \A q \in Procs \ {p} : procs[q].pc # "wait",
                  !.expect = IF a.op = "get" /\ ~a.noCache
                                /\ lastGet = [lastGet EXCEPT !.dec = d,
                                                             !.path = a.path]
                             THEN lastGet.content ELSE 0]
         st == Run(World(l0))
     IN  /\ Commit(p, st)
         /\ procs' = [q \in Procs |->
                        IF q = p THEN st.l
                        ELSE [procs[q] EXCEPT
                                !.alone = IF procs[q].pc = "wait" THEN FALSE
                                          ELSE @]]
  /\ ncalls' = ncalls + 1
  /\ UNCHANGED resourceVars

\* The exchange in flight of call chain p settles with `resp'.
Respond(p, resp, fail) ==
  /\ procs[p].pc = "wait"
  /\ ~Returning
  /\ resp \in Responses(procs[p].req)
  /\ LET l0 == [procs[p] EXCEPT !.failAt = fail, !.hit = NoHit]
         st == Run(IF l0.req.purpose = "file"
                   THEN getFileResponseResponse(World(l0), resp)
                   ELSE requestPageResponse(World(l0), resp))
     IN  /\ Commit(p, st)
         /\ procs' = [procs EXCEPT ![p] = st.l]
  /\ UNCHANGED <<ncalls, resourceVars>>

\* The caller of call chain p receives the result.
Return(p) ==
  /\ procs[p].pc \in {"done", "failed"}
  /\ procs' = [procs EXCEPT ![p] = Idle]
  /\ UNCHANGED <<currentBond, cacheBond, cache, ncalls, lastGet, optionsHook,
                 resourceVars>>

\* The decorators and operations of the concurrent specification.
ConcDecorators == {1, 3}
ConcArgs == {a \in CallArgs : a.op \in {"get", "followAllRedirect"}
                                /\ a.path = "p" /\ ~a.noCache}

\* Concurrent call chains on decorators of two bonds.
Next ==
  \/ \E p \in Procs, d \in Decorators, a \in CallArgs :
       Call(p, d, a, None, ConcDecorators, ConcArgs)
  \/ \E p \in Procs :
       \E resp \in Responses(procs[p].req) : Respond(p, resp, None)
  \/ \E p \in Procs : Return(p)

Spec == Init /\ [][Next]_vars

\* One call chain at a time: every decorator and every operation.
NextSeq ==
  \/ \E d \in Decorators, a \in CallArgs :
       Call(1, d, a, None, Decorators, CallArgs)
  \/ \E resp \in Responses(procs[1].req) : Respond(1, resp, None)
  \/ Return(1)

SpecSeq == Init /\ [][NextSeq]_vars

\* The transport alone (a decorator without bond passes every call on),
\* with session hooks that may fail.
NextHooks ==
  \/ \E a \in CallArgs, fail \in Hooks \cup {None} :
       Call(1, 4, a, fail, {4}, CallArgs)
  \/ \E fail \in Hooks \cup {None} :
       \E resp \in Responses(procs[1].req) : Respond(1, resp, fail)
  \/ Return(1)

SpecHooks == Init /\ [][NextHooks]_vars

\* The transport alone, under a session whose afterHTTPOptions either
\* changes the options in place or returns new ones.
InitOptions ==
  /\ currentBond = NoBond
  /\ cacheBond = NoBond
  /\ cache = EmptyCache
  /\ procs = [p \in Procs |-> Idle]
  /\ ncalls = 0
  /\ lastGet = NoGet
  /\ optionsHook \in {"same", "new"}
  /\ InitResources

NextOptions ==
  \/ \E a \in CallArgs : Call(1, 4, a, None, {4}, CallArgs)
  \/ \E resp \in Responses(procs[1].req) : Respond(1, resp, None)
  \/ Return(1)

SpecOptions == InitOptions /\ [][NextOptions]_vars

\* ------------------------------------------------------ Page construction
\* The statuses a response may carry.
Statuses == {200, 301, 302, 404, 500}

\* The response handed to the Page constructor.
InitPage ==
  /\ InitSession
  /\ ctor \in [status : Statuses, loc : Locations \cup {None},
               content : 1..MaxContent, out : {None}]
  /\ view = NoView
  /\ enc = NoEnc
  /\ bond = NoStudentBond
  /\ heap = << >>
  /\ store = [t \in Targets |-> [id \in NaturalIds |-> 0]]
  /\ firstOf = [t \in Targets |-> [id \in NaturalIds |-> 0]]
  /\ dl = NoDownload
  /\ last = NoOp

\* new CommonSigaaPage(options): the fields are set and the expiry check
\* runs last.
Construct ==
  /\ ctor.out = None
  /\ ctor' = [ctor EXCEPT !.out = IF checkPageStatusCodeAndExpired(ctor)
                                  THEN "Session expired" ELSE "page"]
  /\ UNCHANGED <<sessionVars, view, enc, bond, heap, store, firstOf, dl, last>>

NextPage == Construct

SpecPage == InitPage /\ [][NextPage]_vars

\* ------------------------------------------------------- Page.viewState
\* The input elements of a body: the name, and the value attribute if any.
Inputs == [name : {"javax.faces.ViewState", "other"},
           value : {"v1", "v2", None}]
Bodies == {<< >>} \cup {<<a>> : a \in Inputs}
            \cup {<<a, b>> : a \in Inputs, b \in Inputs}

\* this.$("input[name='javax.faces.ViewState']"): the elements that match.
IsViewStateInput(e) == e.name = "javax.faces.ViewState"
Select(body) == SelectSeq(body, IsViewStateInput)

\* cheerio .val(): the value of the first element, undefined without one.
val(selection) == IF selection = << >> THEN None ELSE selection[1].value

\* viewState that throws when the field is not there.
viewState_throws(pg) ==
  IF Select(pg.body) = << >>
  THEN [pg EXCEPT !.threw = TRUE, !.ret = None, !.reads = @ + 1]
  ELSE [pg EXCEPT !.viewState = val(Select(pg.body)),
                  !.ret = val(Select(pg.body)), !.reads = @ + 1]

\* The viewState getter: the memo _viewState and the value returned.  The
\* cheerio selection is an object, so `if (responseViewStateEl)' passes.
viewState(pg) ==
  LET memo == IF pg.viewState = None THEN val(Select(pg.body))
              ELSE pg.viewState
  IN  [pg EXCEPT !.viewState = memo, !.ret = memo, !.reads = @ + 1]

InitView ==
  /\ InitSession
  /\ ctor = NoCtor
  /\ view \in [body : Bodies, viewState : {None}, reads : {0}, ret : {None},
               threw : {FALSE}]
  /\ enc = NoEnc
  /\ bond = NoStudentBond
  /\ heap = << >>
  /\ store = [t \in Targets |-> [id \in NaturalIds |-> 0]]
  /\ firstOf = [t \in Targets |-> [id \in NaturalIds |-> 0]]
  /\ dl = NoDownload
  /\ last = NoOp

\* A holder of the Page reads viewState.
ReadViewState ==
  /\ view.reads < MaxReads
  /\ ~view.threw
  /\ view' = viewState(view)
  /\ UNCHANGED <<sessionVars, ctor, enc, bond, heap, store, firstOf, dl, last>>

NextView == ReadViewState

SpecView == InitView /\ [][NextView]_vars

\* ---------------------------------------------------- encodePostValue
\* Characters are code points.  The field values are made of these: a, ~,
\* -, space, &, *, +, =, line feed, e with acute accent, euro sign.
Chars == {97, 126, 45, 32, 38, 42, 43, 61, 10, 233, 8364}
Strings == UNION {[1..n -> Chars] : n \in 0..MaxLen}
FieldNames == {<<97>>, <<97, 32>>}

\* The bytes of the UTF-8 encoding of a code point below 65536.
UTF8(cp) ==
  IF cp < 128 THEN <<cp>>
  ELSE IF cp < 2048 THEN <<192 + (cp \div 64), 128 + (cp % 64)>>
  ELSE <<224 + (cp \div 4096), 128 + ((cp \div 64) % 64), 128 + (cp % 64)>>

\* The character of an upper-case hexadecimal digit.
HexDigit(d) == IF d < 10 THEN 48 + d ELSE 55 + d

\* The application/x-www-form-urlencoded byte serializer of
\* URLSearchParams: space becomes '+', the letters, the digits and * - . _
\* stay, every other byte becomes %XX.
SerializeByte(b) ==
  IF b = 32 THEN <<43>>
  ELSE IF b \in {42, 45, 46, 95} \cup (48..57) \cup (65..90) \cup (97..122)
  THEN <<b>>
  ELSE <<37, HexDigit(b \div 16), HexDigit(b % 16)>>

RECURSIVE Flatten(_)
Flatten(seqs) ==
  IF seqs = << >> THEN << >> ELSE Head(seqs) \o Flatten(Tail(seqs))

SerializeString(str) ==
  Flatten([i \in DOMAIN str |->
             Flatten([j \in DOMAIN UTF8(str[i]) |->
                        SerializeByte(UTF8(str[i])[j])])])

\* URLSearchParams.prototype.toString() of one name/value pair.  It is the
\* inherited serializer: the encodeURIComponent method and the
\* encodingFunction of CustomSearchParams are never called by it.
toString(name, value) ==
  SerializeString(name) \o <<61>> \o SerializeString(value)

\* SigaaHTTP.encodePostValue: the body of the request.
encodePostValue(name, value) == toString(name, value)

InitEncode ==
  /\ InitSession
  /\ ctor = NoCtor
  /\ view = NoView
  /\ enc \in [name : FieldNames, value : Strings, body : {<< >>},
              done : {FALSE}]
  /\ bond = NoStudentBond
  /\ heap = << >>
  /\ store = [t \in Targets |-> [id \in NaturalIds |-> 0]]
  /\ firstOf = [t \in Targets |-> [id \in NaturalIds |-> 0]]
  /\ dl = NoDownload
  /\ last = NoOp

\* post / fileResponseByPost build the body of their request.
Encode ==
  /\ ~enc.done
  /\ enc' = [enc EXCEPT !.body = encodePostValue(enc.name, enc.value),
                        !.done = TRUE]
  /\ UNCHANGED <<sessionVars, ctor, view, bond, heap, store, firstOf, dl, last>>

NextEncode == Encode

SpecEncode == InitEncode /\ [][NextEncode]_vars

\* -------------------------------------------------- encodeWithRFC3986
\* A JavaScript string is a sequence of UTF-16 code units.  The strings
\* are made of these: a, ~, space, line feed, e with acute accent, U+0100,
\* the euro sign, and the two surrogates of U+1F600.
Units == {97, 126, 32, 10, 233, 256, 8364, 55357, 56832}
UnitStrings == UNION {[1..n -> Units] : n \in 0..MaxLen}

\* 'ABCDEFGHIJKLMNOPQRSTUVWXYZabcdefghijklmnopqrstuvwxyz0123456789-_.~'
unreservedCharacters ==
  (65..90) \cup (97..122) \cup (48..57) \cup {45, 95, 46, 126}

\* String.prototype.codePointAt: a high surrogate followed by a low one is
\* read as the code point of the pair, any other unit as itself.
codePointAt(str, i) ==
  IF /\ str[i] \in 55296..56319
     /\ i < Len(str)
     /\ str[i + 1] \in 56320..57343
  THEN 65536 + (str[i] - 55296) * 1024 + (str[i + 1] - 56320)
  ELSE str[i]

\* Number.prototype.toString(16): lower-case digits, no padding.
RECURSIVE toString16(_)
toString16(n) ==
  LET digit == IF n % 16 < 10 THEN 48 + (n % 16) ELSE 87 + (n % 16)
  IN  IF n < 16 THEN <<digit>> ELSE Append(toString16(n \div 16), digit)

\* .replace(/..?/g, '%$&'): a '%' before every group of two characters,
\* and before the last character when their number is odd.
RECURSIVE replace(_)
replace(hex) ==
  IF hex = << >> THEN << >>
  ELSE IF Len(hex) = 1 THEN <<37, hex[1]>>
  ELSE <<37, hex[1], hex[2]>> \o replace(SubSeq(hex, 3, Len(hex)))

\* SigaaHTTP.encodeWithRFC3986: the loop over the code units of str.
encodeWithRFC3986(str) ==
  Flatten([i \in DOMAIN str |->
             IF str[i] \in unreservedCharacters THEN <<str[i]>>
             ELSE replace(toString16(codePointAt(str, i)))])

InitRFC3986 ==
  /\ InitSession
  /\ ctor = NoCtor
  /\ view = NoView
  /\ enc \in [name : {<< >>}, value : UnitStrings, body : {<< >>},
              done : {FALSE}]
  /\ bond = NoStudentBond
  /\ heap = << >>
  /\ store = [t \in Targets |-> [id \in NaturalIds |-> 0]]
  /\ firstOf = [t \in Targets |-> [id \in NaturalIds |-> 0]]
  /\ dl = NoDownload
  /\ last = NoOp

\* A call of encodeWithRFC3986.
EncodeWithRFC3986 ==
  /\ ~enc.done
  /\ enc' = [enc EXCEPT !.body = encodeWithRFC3986(enc.value), !.done = TRUE]
  /\ UNCHANGED <<sessionVars, ctor, view, bond, heap, store, firstOf, dl, last>>

NextRFC3986 == EncodeWithRFC3986

SpecRFC3986 == InitRFC3986 /\ [][NextRFC3986]_vars

\* ------------------------------------------------------ SigaaStudentBond
\* Period labels are numbered in their string order: label 1 sorts before
\* label 2.  A row of the body of the courses table is a period row (its
\* first cell has class `periodo') or a course row (label 0).
PeriodLabels == 1..MaxPeriods
TableRows == [periodo : {TRUE}, label : PeriodLabels]
               \cup {[periodo |-> FALSE, label |-> 0]}

\* The bodies of a courses table: a period is listed once.
TableBodies ==
  {rows \in UNION {[1..n -> TableRows] : n \in 0..MaxRows} :
     \A i, j \in DOMAIN rows :
       (rows[i].periodo /\ rows[j].periodo /\ rows[i].label = rows[j].label)
         => i = j}

\* The header cells that getCourses and getCoursesLocal look for.
CoursesColumns == {"Disciplina", "Turma", "Horario", "Alunos", ""}
LocalColumns == {"Componente Curricular", "Local", "Horario"}

\* The tables of '.listagem': complete, or with one column missing.
CoursesTables ==
  {NoTable} \cup
  [table : {TRUE},
   headers : {CoursesColumns} \cup {CoursesColumns \ {h} : h \in CoursesColumns},
   rows : TableBodies]

\* The tables of '#turmas-portal': their rows are not told apart.
LocalTables ==
  {NoTable} \cup
  [table : {TRUE},
   headers : {LocalColumns} \cup {LocalColumns \ {h} : h \in LocalColumns},
   rows : {<< >>}]

\* [currentPeriod, periodFilter].sort()[1]: the greater of the two.
sort(currentPeriod, periodFilter) ==
  IF currentPeriod >= periodFilter THEN <<periodFilter, currentPeriod>>
  ELSE <<currentPeriod, periodFilter>>

\* getCourses, the loop that looks for the newest period: row i onward,
\* periodFilter = 0 while it is null.
RECURSIVE findPeriodFilter(_, _, _)
findPeriodFilter(rows, i, periodFilter) ==
  IF i > Len(rows) THEN periodFilter
  ELSE IF ~rows[i].periodo THEN findPeriodFilter(rows, i + 1, periodFilter)
  ELSE IF periodFilter = 0 THEN findPeriodFilter(rows, i + 1, rows[i].label)
  ELSE IF sort(rows[i].label, periodFilter)[2] = rows[i].label
  THEN findPeriodFilter(rows, i + 1, rows[i].label)
  ELSE periodFilter

\* getCourses, the loop over the rows: the courses handed to the factory.
\* A course is named by the index of its row.
RECURSIVE rowLoop(_, _, _, _, _)
rowLoop(rows, i, period, periodFilter, listCourses) ==
  IF i > Len(rows) THEN listCourses
  ELSE IF rows[i].periodo
  THEN rowLoop(rows, i + 1, rows[i].label, periodFilter, listCourses)
  ELSE IF period # 0 /\ (periodFilter = 0 \/ periodFilter = period)
  THEN rowLoop(rows, i + 1, period, periodFilter,
               Append(listCourses, [id |-> i, period |-> period]))
  ELSE rowLoop(rows, i + 1, period, periodFilter, listCourses)

\* getCoursesLocal after its page arrived: the error it throws, or None.
getCoursesLocal(page) ==
  IF ~page.table THEN None
  ELSE IF "Componente Curricular" \notin page.headers THEN "titles"
  ELSE IF "Local" \notin page.headers THEN "local"
  ELSE IF "Horario" \notin page.headers THEN "schedules"
  ELSE None

\* getCourses that reads the rows before it looks at the header.
getCourses_rowsFirst(b, allPeriods) ==
  LET page == b.coursesPage
      filter == IF allPeriods THEN 0 ELSE findPeriodFilter(page.rows, 1, 0)
      b1 == [b EXCEPT !.allPeriods = allPeriods, !.periodFilter = filter]
      list == rowLoop(page.rows, 1, 0, filter, << >>)
      b2 == [b1 EXCEPT !.created = Len(list)]
  IN  IF ~page.table THEN [b1 EXCEPT !.pc = "done"]
      ELSE IF "" \notin page.headers
      THEN [b2 EXCEPT !.pc = "failed", !.err = "buttons"]
      ELSE IF "Disciplina" \notin page.headers
      THEN [b2 EXCEPT !.pc = "failed", !.err = "titles"]
      ELSE IF "Horario" \notin page.headers
      THEN [b2 EXCEPT !.pc = "failed", !.err = "schedules"]
      ELSE [b1 EXCEPT !.pc = "getCoursesLocal"]

\* getCourses from the arrival of the courses page to the call of
\* getCoursesLocal.
getCourses(b, allPeriods) ==
  LET page == b.coursesPage
      filter == IF allPeriods THEN 0 ELSE findPeriodFilter(page.rows, 1, 0)
      b1 == [b EXCEPT !.allPeriods = allPeriods, !.periodFilter = filter]
  IN  IF ~page.table THEN [b1 EXCEPT !.pc = "done"]
      ELSE IF "" \notin page.headers
      THEN [b1 EXCEPT !.pc = "failed", !.err = "buttons"]
      ELSE IF "Disciplina" \notin page.headers
      THEN [b1 EXCEPT !.pc = "failed", !.err = "titles"]
      ELSE IF "Horario" \notin page.headers
      THEN [b1 EXCEPT !.pc = "failed", !.err = "schedules"]
      ELSE [b1 EXCEPT !.pc = "getCoursesLocal"]

\* getCourses from the return of getCoursesLocal to its end.
getCoursesRows(b) ==
  LET err == getCoursesLocal(b.frontPage)
      list == rowLoop(b.coursesPage.rows, 1, 0, b.periodFilter, << >>)
  IN  IF err # None THEN [b EXCEPT !.pc = "failed", !.err = err]
      ELSE [b EXCEPT !.pc = "done", !.list = list, !.created = Len(list)]

InitBond ==
  /\ InitSession
  /\ ctor = NoCtor
  /\ view = NoView
  /\ enc = NoEnc
  /\ bond \in [coursesPage : CoursesTables, frontPage : LocalTables,
               pc : {"idle"}, allPeriods : {FALSE}, periodFilter : {0},
               err : {None}, list : {<< >>}, created : {0}]
  /\ heap = << >>
  /\ store = [t \in Targets |-> [id \in NaturalIds |-> 0]]
  /\ firstOf = [t \in Targets |-> [id \in NaturalIds |-> 0]]
  /\ dl = NoDownload
  /\ last = NoOp

\* getCourses(allPeriods) is called and its courses page arrives.
GetCourses(allPeriods) ==
  /\ bond.pc = "idle"
  /\ bond' = getCourses(bond, allPeriods)
  /\ UNCHANGED <<sessionVars, ctor, view, enc, heap, store, firstOf, dl, last>>

\* The front page that getCoursesLocal asked for arrives.
GetCoursesLocalRespond ==
  /\ bond.pc = "getCoursesLocal"
  /\ bond' = getCoursesRows(bond)
  /\ UNCHANGED <<sessionVars, ctor, view, enc, heap, store, firstOf, dl, last>>

\* getCoursesLocal() is called by the holder of the bond.
GetCoursesLocal ==
  /\ bond.pc = "idle"
  /\ bond' = [bond EXCEPT
                !.err = getCoursesLocal(bond.frontPage),
                !.pc = IF getCoursesLocal(bond.frontPage) # None
                       THEN "failedLocal" ELSE "doneLocal"]
  /\ UNCHANGED <<sessionVars, ctor, view, enc, heap, store, firstOf, dl, last>>

NextBond ==
  \/ \E allPeriods \in BOOLEAN : GetCourses(allPeriods)
  \/ GetCoursesLocalRespond
  \/ GetCoursesLocal

SpecBond == InitBond /\ [][NextBond]_vars

\* ---------------------------------------------------------- identity cache
\* The snapshots handed to the materializing method: two per natural id
\* (other title, other key), two with a form, one that the constructor
\* rejects.
IdentityData ==
  {d \in FileDataKey(NaturalIds, FileKeys) : d.key = "k1" <=> d.title = "t1"}
    \cup {d \in FileDataForm({f \in Forms : f.id = "42" /\ f.key # None}) :
            d.form.key = "k1" <=> d.title = "t1"}
    \cup {d \in FileDataKey({"43"}, {None}) : d.title = "t1"}

\* A caller materializes a file from the snapshot `data' through the
\* decorated method t[2] of the factory object t[1].
Materialize(t, data) ==
  /\ t \in Targets
  /\ data \in IdentityData
  /\ LET r == sharedReturn(heap, store[t], data)
     IN  /\ Len(r.heap) <= MaxFiles
         /\ heap' = r.heap
         /\ store' = [store EXCEPT ![t] = r.store]
         /\ firstOf' = IF data.id # "" /\ firstOf[t][data.id] = 0
                       THEN [firstOf EXCEPT ![t][data.id] = r.ret]
                       ELSE firstOf
         /\ last' = [op |-> "materialize", data |-> data, ret |-> r.ret,
                     constructed |-> r.constructed /\ r.ret # 0,
                     before |-> IF data.id = "" THEN 0
                                ELSE firstOf[t][data.id]]
  /\ UNCHANGED <<sessionVars, ctor, view, enc, bond, dl>>

\* The owner of instance i closes it.
Close(i) ==
  /\ i \in DOMAIN heap
  /\ heap' = [heap EXCEPT ![i] = close(@)]
  /\ last' = [op |-> "close", inst |-> i]
  /\ UNCHANGED <<sessionVars, ctor, view, enc, bond, store, firstOf, dl>>

\* A holder of a reference to instance i reads one of its properties.
Access(i, name) ==
  /\ i \in DOMAIN heap
  /\ last' = [op |-> name, inst |-> i, closed |-> heap[i].isClosed,
              ret |-> getter(heap[i], name)]
  /\ UNCHANGED <<sessionVars, ctor, view, enc, bond, heap, store, firstOf, dl>>

NextIdentity ==
  \/ \E t \in Targets, data \in IdentityData : Materialize(t, data)
  \/ \E i \in 1..MaxFiles : Close(i)
  \/ \E i \in 1..MaxFiles, name \in Accessors : Access(i, name)

SpecIdentity == Init /\ [][NextIdentity]_vars

\* ------------------------------------------------------ SigaaFile.download
\* The request of one download attempt, as the transport sees it.
FileReq(via) ==
  [method |-> IF via = "fileResponseByPost" THEN "POST" ELSE "GET",
   path |-> "f", noCache |-> FALSE, postForm |-> FALSE, purpose |-> "file"]

\* How the transport settles the attempt on the response `resp'.
FileOutcome(via, resp) ==
  Run(getFileResponseResponse(
        World([Idle EXCEPT !.pc = "wait", !.req = FileReq(via)]), resp)).l

\* One attempt leaves through the transport.
attempt(f, d, retry, via) ==
  [d EXCEPT !.pc = "wait", !.retry = retry, !.via = via,
            !.attempts = @ + 1, !.vias = Append(@, via),
            !.issuedClosed = @ \/ f.isClosed]

\* download that does not look at the closed flag.
download_noCheck(h, d, retry) ==
  LET f == h[d.inst]
  IN  IF f.form # NoForm THEN attempt(f, d, retry, "fileResponseByPost")
      ELSE IF f.key # None THEN attempt(f, d, retry, "fileResponseByGet")
      ELSE [d EXCEPT !.pc = "failed", !.err = "key is missing"]

\* download that asks for a refresh when the file has no key.
download_refreshOnMissingKey(h, d, retry) ==
  LET f == h[d.inst]
  IN  IF checkIfItWasClosed(f)
      THEN [d EXCEPT !.pc = "failed", !.err = ClosedError]
      ELSE IF f.form # NoForm
      THEN attempt(f, d, retry, "fileResponseByPost")
      ELSE IF getter(f, "key") # None
      THEN attempt(f, d, retry, "fileResponseByGet")
      ELSE [d EXCEPT !.pc = "updateInstance", !.err = "key is missing",
                     !.refreshed = @ + 1]

\* SigaaFile.download(responseType, callback, retry), up to the call of
\* the transport.
download(h, d, retry) ==
  LET f == h[d.inst]
  IN  IF checkIfItWasClosed(f)
      THEN [d EXCEPT !.pc = "failed", !.err = ClosedError]
      ELSE IF f.form # NoForm
      THEN attempt(f, d, retry, "fileResponseByPost")
      ELSE IF getter(f, "key") # None
      THEN attempt(f, d, retry, "fileResponseByGet")
      ELSE [d EXCEPT !.pc = "failed", !.err = "key is missing"]

\* The catch of the form path, up to `await this.updateInstance()'.
catchPost(d, err) ==
  [d EXCEPT !.pc = "updateInstance", !.err = err, !.errs = Append(@, err),
            !.refreshed = @ + 1]

\* The catch of the form path after updateInstance.
afterUpdateInstance(h, d) ==
  IF d.retry THEN download(h, d, FALSE)
  ELSE [d EXCEPT !.pc = "failed"]

\* A catch of the id/key path that calls download with retry again.
catchGet_retryAgain(h, d, err) ==
  LET d1 == [d EXCEPT !.err = err, !.errs = Append(@, err)]
  IN  download(h, d1, TRUE)

\* The catch of the id/key path.
catchGet(h, d, err) ==
  LET d1 == [d EXCEPT !.err = err, !.errs = Append(@, err)]
  IN  IF d.retry THEN download(h, d1, FALSE)
      ELSE [d1 EXCEPT !.pc = "failed"]

\* The file, as its constructor left it.
InitFile ==
  /\ InitSession
  /\ ctor = NoCtor
  /\ view = NoView
  /\ enc = NoEnc
  /\ bond = NoStudentBond
  /\ heap \in {<<update(NewFile, data)>> :
                 data \in {o \in FileData : ~InvalidFileData(o)}}
  /\ store = [t \in Targets |-> [id \in NaturalIds |-> 0]]
  /\ firstOf = [t \in Targets |-> [id \in NaturalIds |-> 0]]
  /\ dl = NoDownload
  /\ last = NoOp

\* The owning collection (or any holder) calls update(data) on instance i.
Update(i, data) ==
  /\ i \in DOMAIN heap
  /\ data \in FileData
  /\ heap' = [heap EXCEPT ![i] = update(@, data)]
  /\ last' = [op |-> "update", inst |-> i, data |-> data,
              ok |-> ~InvalidFileData(data), wasClosed |-> heap[i].isClosed]
  /\ UNCHANGED <<sessionVars, ctor, view, enc, bond, store, firstOf, dl>>

\* A caller calls download on instance i.
Download(i) ==
  /\ i \in DOMAIN heap
  /\ dl.pc \in {"idle", "done", "failed"}
  /\ dl' = download(heap, [NoDownload EXCEPT
                             !.inst = i,
                             !.closedAtCall = heap[i].isClosed,
                             !.bareAtCall = /\ heap[i].form = NoForm
                                            /\ heap[i].key = None],
                    TRUE)
  /\ last' = [op |-> "download", inst |-> i]
  /\ UNCHANGED <<sessionVars, ctor, view, enc, bond, heap, store, firstOf>>

\* The attempt in flight settles on the response `resp'.
DownloadRespond(resp) ==
  /\ dl.pc = "wait"
  /\ resp \in Responses(FileReq(dl.via))
  /\ LET out == FileOutcome(dl.via, resp)
     IN  IF out.pc = "done"
         THEN /\ dl' = [dl EXCEPT !.pc = "done"]
              /\ heap' = heap
         ELSE IF dl.via = "fileResponseByPost"
         THEN /\ heap' = [heap EXCEPT ![dl.inst].form = NoForm]
              /\ dl' = catchPost(dl, out.err)
         ELSE /\ heap' = heap
              /\ dl' = catchGet(heap, dl, out.err)
  /\ UNCHANGED <<sessionVars, ctor, view, enc, bond, store, firstOf, last>>

\* What the updater callback of updateInstance can do to the file before
\* its promise settles.
UpdaterOutcomes ==
  [kind : {"update"}, data : {o \in FileData : ~InvalidFileData(o)}]
    \cup [kind : {"close", "nothing", "reject"}, data : {NoForm}]

\* updateInstance settles and the catch of the form path goes on.
UpdateInstance(outcome) ==
  /\ dl.pc = "updateInstance"
  /\ outcome \in UpdaterOutcomes
  /\ LET h == CASE outcome.kind = "update" ->
                    [heap EXCEPT ![dl.inst] = update(@, outcome.data)]
                 [] outcome.kind = "close" ->
                    [heap EXCEPT ![dl.inst] = close(@)]
                 [] OTHER -> heap
     IN  /\ heap' = h
         /\ dl' = IF outcome.kind = "reject"
                  THEN [dl EXCEPT !.pc = "failed", !.err = "updater"]
                  ELSE afterUpdateInstance(h, dl)
  /\ last' = [op |-> "updateInstance", inst |-> dl.inst]
  /\ UNCHANGED <<sessionVars, ctor, view, enc, bond, store, firstOf>>

NextFile ==
  \/ \E data \in FileData : Update(1, data)
  \/ Close(1)
  \/ \E name \in Accessors : Access(1, name)
  \/ Download(1)
  \/ \E resp \in Responses(FileReq(dl.via)) : DownloadRespond(resp)
  \/ \E outcome \in UpdaterOutcomes : UpdateInstance(outcome)

SpecFile == InitFile /\ [][NextFile]_vars

\* ----------------------------------------------------------- properties
Required(l) == bondSwitchUrl(l.dec)

\* The exchange in flight belongs to the wrapped operation, not to a switch.
WrappedInFlight(l) ==
  l.pc = "wait" /\ l.req.purpose \in {"operation", "followAllRedirect", "file"}

\* C1: an operation issued alone whose required bond differs from the
\* current bond (none included, and a required bond of null while a bond is
\* current included) performs a switch exchange, and the current bond is
\* the required bond when the wrapped operation starts.
C1_SwitchesToRequiredBond ==
  \A p \in Procs :
    (procs[p].alone /\ procs[p].started /\ Required(procs[p]) # procs[p].callBond)
      => (procs[p].swGets >= 1 /\ procs[p].startBond = Required(procs[p]))

\* C2: with concurrent operations on decorators of different bonds, every
\* exchange of a wrapped operation leaves while the controller's current
\* bond is the bond its decorator requires.
C2_ExchangeUnderOwnBond ==
  \A p \in Procs :
    WrappedInFlight(procs[p])
      => Href(procs[p].issuedBond) = Href(Required(procs[p]))

\* C3: switch idempotence: an operation called while the current bond has
\* the URL of the decorator's required bond asks for no GET of the
\* bond-switch URL, whichever decorator instance made that bond current.
C3_NoSwitchWhenBondIsCurrent ==
  \A p \in Procs :
    (procs[p].pc # "idle" /\ Href(procs[p].callBond) = Href(Required(procs[p])))
      => procs[p].swGets = 0

\* C4: a bond switch that fails, or ends with a status other than 200, is
\* fatal and changes nothing: the operation fails, the wrapped operation is
\* never called, the switch URL is asked for once only, and the current
\* bond of the controller and of the page cache keep their values; a switch
\* is committed only on a final status of 200.
C4_SwitchFailureIsFatal ==
  [][\A p \in Procs :
       /\ (procs[p].sw = "inflight" /\ procs'[p].sw = "failed")
            => /\ procs'[p].pc = "failed"
               /\ ~procs'[p].started
               /\ procs'[p].swGets = 1
               /\ currentBond' = currentBond
               /\ cacheBond' = cacheBond
       /\ (procs[p].sw = "inflight" /\ procs'[p].sw # "inflight")
            => (procs'[p].sw = "ok" <=> procs'[p].swStatus = 200)]_vars

C4_Witness ==
  \E p \in Procs :
    /\ procs[p].sw = "failed" /\ procs[p].swStatus = 302
    /\ currentBond # NoBond /\ currentBond # Required(procs[p])

\* C5: the wrapped operation is called only when the check is over: never
\* while the switch exchange of its own call is in flight and never after
\* that switch failed.
C5_CheckCompletesBeforeWrapped ==
  \A p \in Procs :
    (procs[p].started \/ WrappedInFlight(procs[p]))
      => procs[p].sw \in {None, "ok"}

C5_Witness ==
  \E p \in Procs : WrappedInFlight(procs[p]) /\ procs[p].sw = "ok"

\* C6: cache hit equivalence: a get(path) without noCache that follows an
\* identical get with no bond switch in between returns the body the first
\* one returned, without a network exchange.
C6_CacheHitEquivalence ==
  \A p \in Procs :
    procs[p].expect # 0
      => /\ procs[p].pc = "done"
         /\ procs[p].page.content = procs[p].expect
         /\ procs[p].hit # NoHit

C6_Witness ==
  \E p \in Procs : procs[p].expect = MaxContent /\ procs[p].pc = "done"

\* C7: bond-scoped invalidation: no request is answered with a bond-scoped
\* cache entry that was recorded before a successful bond switch.
C7_BondScopedInvalidation ==
  \A p \in Procs : procs[p].hit.old => procs[p].hit.indep

\* After a switch away from a bond, the get of a page that was cached under
\* that bond goes to the network.
C7_Witness ==
  \E p \in Procs :
    /\ procs[p].sw = "ok" /\ procs[p].hadEntry /\ procs[p].callBond # NoBond
    /\ procs[p].pc = "wait" /\ procs[p].req.purpose = "operation"
    /\ ~procs[p].req.noCache

\* C8: an entry stored as bond-independent before a successful switch is
\* still served from the cache after it (the step that commits the switch
\* first stores the page of the exchange that ended the switch; that key
\* is left out).
C8_BondIndependentSurvives ==
  [][\A p \in Procs :
       (procs[p].sw = "inflight" /\ procs'[p].sw = "ok")
         => \A k \in Keys \ {<<procs[p].req.method, procs[p].req.path>>} :
              (cache[k] # NoEntry /\ cache[k].indep)
                => getPage(cache', cacheBond', k) = cache[k].page]_vars

C8_Witness ==
  \E p \in Procs :
    /\ procs[p].sw = "ok" /\ procs[p].pc = "done"
    /\ procs[p].hit.old /\ procs[p].hit.indep

HookOrders ==
  {<< >>,
   <<"afterHTTPOptions", "afterUnsuccessfulRequest">>,
   <<"afterHTTPOptions", "beforeRequest", "afterUnsuccessfulRequest">>,
   <<"afterHTTPOptions", "beforeRequest", "afterSuccessfulRequest">>,
   <<"afterHTTPOptions", "beforeRequest", "requestHTTP">>,
   <<"afterHTTPOptions", "beforeRequest", "requestHTTP",
     "afterSuccessfulRequest">>,
   <<"afterHTTPOptions", "beforeRequest", "requestHTTP",
     "afterUnsuccessfulRequest">>}

PageOps == {"get", "post", "postMultipart", "followAllRedirect"}

\* C10: the hooks of a page request run in the fixed order afterHTTPOptions,
\* beforeRequest, network exchange, afterSuccessfulRequest or
\* afterUnsuccessfulRequest, and a failure at any step is handed to
\* afterUnsuccessfulRequest.
C10_HookOrderAndFailure ==
  \A p \in Procs :
    procs[p].op \in PageOps
      => /\ procs[p].trace \in HookOrders
         /\ procs[p].failed # None
              => procs[p].trace[Len(procs[p].trace)] = "afterUnsuccessfulRequest"

\* C11: every request of the transport, the file downloads included, passes
\* through the session hooks in order: an exchange leaves only after
\* afterHTTPOptions and beforeRequest, and a request that is over ended in
\* afterSuccessfulRequest or afterUnsuccessfulRequest.
C11_EveryRequestPassesHooks ==
  \A p \in Procs :
    LET t == procs[p].trace
    IN  /\ (\E i \in DOMAIN t : t[i] = "requestHTTP")
             => /\ Len(t) >= 3
                /\ t[1] = "afterHTTPOptions"
                /\ t[2] = "beforeRequest"
                /\ t[3] = "requestHTTP"
        /\ (procs[p].pc \in {"done", "failed"} /\ t # << >>)
             => t[Len(t)] \in {"afterSuccessfulRequest",
                               "afterUnsuccessfulRequest"}

\* C12: a get, post or postMultipart that beforeRequest did not answer
\* sends exactly one HTTP request, whatever the postForm flag is.
C12_ExactlyOneExchange ==
  \A p \in Procs :
    (procs[p].pc = "wait" /\ procs[p].req.purpose = "operation")
      => procs[p].sent = 1

\* C14: the expired-session response of a page request never becomes a
\* Page: none is returned, none is stored in the cache, the call fails with
\* the session-expired error right after that exchange (no other exchange
\* follows) and the error was handed to afterUnsuccessfulRequest.
C14_ExpiredNeverSucceeds ==
  /\ \A k \in Keys :
       ~(cache[k].page.status = 302 /\ cache[k].page.loc = ExpiredLocation)
  /\ \A p \in Procs :
       /\ ~(procs[p].page.status = 302 /\ procs[p].page.loc = ExpiredLocation)
       /\ procs[p].failed = "page"
            => /\ procs[p].pc = "failed"
               /\ procs[p].err = "expired"
               /\ procs[p].trace = <<"afterHTTPOptions", "beforeRequest",
                                     "requestHTTP", "afterUnsuccessfulRequest">>

\* The second hop of a followAllRedirect ran into the expired session.
C14_Witness ==
  \E p \in Procs :
    /\ procs[p].failed = "page" /\ procs[p].op = "followAllRedirect"
    /\ cache[<<"GET", "p">>] # NoEntry

\* The Location targets the expired-session endpoint: the path of the URL
\* it names is /sigaa/expirada.jsp.
TargetsExpired(loc) == loc \in {ExpiredLocation, "abs", "exp?"}

\* C13: the construction of a Page fails with the session-expired error
\* exactly when the status is 302 and the Location targets the
\* expired-session endpoint, whatever the body is; every other response
\* gives a Page.
C13_ExpiryDetection ==
  ctor.out # None
    => (ctor.out = "Session expired"
          <=> (ctor.status = 302 /\ ctor.loc # None /\ TargetsExpired(ctor.loc)))

\* The key a snapshot gives to the file.
DataKey(data) == IF data.form # NoForm THEN data.form.key ELSE data.key
DataId(data) == IF data.form # NoForm THEN data.form.id ELSE data.id

\* C15: identity stability: a materialization with a non-empty natural id
\* that was materialized before returns the instance that the first
\* materialization returned, and the constructing method does not run.
C15_IdentityStability ==
  (last.op = "materialize" /\ last.before # 0)
    => (last.ret = last.before /\ ~last.constructed)

\* The second snapshot of the id differs from the first one, and another
\* instance exists.
C15_Witness ==
  /\ last.op = "materialize" /\ last.before = 1 /\ Len(heap) = 2
  /\ last.data.title = "t2"
  /\ heap[1].title = "t1"

\* C16: on a hit of the identity cache update(newData) is called on the
\* instance: right after the materialization the title and the key of the
\* new snapshot are read through the first reference, and the instance is
\* open.
C16_HitUpdatesInstance ==
  (last.op = "materialize" /\ last.before # 0)
    => /\ getter(heap[last.before], "title") = last.data.title
       /\ getter(heap[last.before], "key") = DataKey(last.data)
       /\ ~heap[last.before].isClosed

\* C17: every accessor of a closed file fails with the instance-closed
\* error, and download on a closed file fails with it before any transport
\* call: no attempt ever leaves while the file is closed.
C17_ClosedAccessorsFail ==
  /\ (last.op \in Accessors /\ last.closed) => last.ret = ClosedError
  /\ dl.closedAtCall
       => (dl.pc = "failed" /\ dl.err = ClosedError /\ dl.attempts = 0)
  /\ ~dl.issuedClosed

\* download was called on a file that was updated and then closed, and
\* an accessor was read after it.
C17_Witness ==
  /\ dl.closedAtCall /\ dl.pc = "failed"
  /\ last.op = "key" /\ last.closed
  /\ heap[1].form # NoForm

\* C18: a file that holds a form has the id and the key of that form.
C18_FormAndIdKeyConsistent ==
  \A i \in DOMAIN heap :
    heap[i].form # NoForm
      => (heap[i].id = heap[i].form.id /\ heap[i].key = heap[i].form.key)

\* C19: a successful update clears the closed flag: right after it every
\* accessor succeeds and returns the value of the new data.
C19_UpdateReopens ==
  (last.op = "update" /\ last.ok)
    => /\ ~heap[last.inst].isClosed
       /\ getter(heap[last.inst], "title") = last.data.title
       /\ getter(heap[last.inst], "description") = last.data.description
       /\ getter(heap[last.inst], "id") = DataId(last.data)
       /\ getter(heap[last.inst], "key") = DataKey(last.data)

C19_Witness ==
  /\ last.op = "update" /\ last.ok /\ last.wasClosed
  /\ last.data.form # NoForm

\* C20: one call of download issues at most two transport attempts, and
\* exactly one when the first attempt succeeds.
C20_AtMostTwoAttempts ==
  /\ dl.attempts <= 2
  /\ Len(dl.vias) = dl.attempts
  /\ (dl.pc = "done" /\ dl.errs = << >>) => dl.attempts = 1

\* The refresh gave the file a new form: both attempts were POSTs, and
\* both failed.
C20_Witness ==
  /\ dl.pc = "failed" /\ dl.attempts = 2 /\ Len(dl.errs) = 2
  /\ dl.vias = <<"fileResponseByPost", "fileResponseByPost">>

\* C21: after a first attempt through the form failed, the refresh
\* (updateInstance) is triggered before the retry, and the retry goes
\* through the id/key GET, never through a form POST again, whatever the
\* refresh gave to the file.
C21_RetryThroughIdKey ==
  (dl.attempts = 2 /\ dl.vias[1] = "fileResponseByPost")
    => (dl.refreshed >= 1 /\ dl.vias[2] = "fileResponseByGet")

\* C22: when the first attempt and the retry both failed, download rejects
\* with the error of the second attempt.
C22_SecondErrorPropagates ==
  (dl.pc = "failed" /\ Len(dl.errs) = 2) => dl.err = dl.errs[2]

\* C24: a download whose response has status 302 fails with the
\* download-expired error, one with another status than 200 fails with the
\* bad-status error, and only a response with status 200 and data returns
\* the file.
C24_DownloadStatusErrors ==
  \A p \in Procs :
    procs[p].got.settled
      => /\ procs[p].got.status = 302
              => (procs[p].pc = "failed" /\ procs[p].err = "downloadExpired")
         /\ procs[p].got.status \notin {0, 200, 302}
              => (procs[p].pc = "failed" /\ procs[p].err = "badStatus")
         /\ procs[p].pc = "done"
              <=> (procs[p].got.status = 200 /\ procs[p].got.content # 0)

C24_Witness ==
  \E p \in Procs :
    /\ procs[p].got.settled /\ procs[p].got.status = 302
    /\ procs[p].op = "fileResponseByPost" /\ procs[p].pc = "failed"

\* C25: followAllRedirect asks for the Location of each page with a GET
\* that carries the caller's options and goes through the whole hook
\* pipeline (a hop is answered by the cache only when the caller did not
\* ask for noCache), and it returns a page without Location.
C25_FollowAllRedirect ==
  \A p \in Procs :
    procs[p].op = "followAllRedirect"
      => /\ (procs[p].pc = "wait" /\ procs[p].req.purpose = "followAllRedirect")
              => /\ procs[p].req.method = "GET"
                 /\ procs[p].req.noCache = procs[p].noCache
                 /\ procs[p].trace = <<"afterHTTPOptions", "beforeRequest",
                                       "requestHTTP">>
         /\ procs[p].hit.purpose = "followAllRedirect" => ~procs[p].noCache
         /\ procs[p].pc = "done"
              => /\ procs[p].page.loc = None
                 /\ procs[p].trace # << >>
                      => procs[p].trace[Len(procs[p].trace)]
                           = "afterSuccessfulRequest"

\* Two hops, the second one asked for with the caller's noCache.
C25_Witness ==
  \E p \in Procs :
    /\ procs[p].op = "followAllRedirect" /\ procs[p].pc = "done"
    /\ procs[p].path = "p" /\ procs[p].page.path = "q" /\ procs[p].noCache
    /\ cache[<<"GET", "q">>] # NoEntry

\* C26: redundant switches are tolerated: two operations of one bond that
\* both found another bond current each perform their switch; a switch
\* fails only on its own exchange, and when both switches are over the
\* current bond is the required one and both wrapped operations were
\* called.
C26_RedundantSwitchesTolerated ==
  /\ \A p \in Procs :
       procs[p].sw = "failed" => procs[p].swStatus # 200
  /\ \A p, q \in Procs :
       (/\ p # q
        /\ Required(procs[p]) = Required(procs[q])
        /\ procs[p].sw = "ok" /\ procs[q].sw = "ok"
        /\ ~procs[p].alone /\ ~procs[q].alone)
         => /\ currentBond = Required(procs[p])
            /\ procs[p].started /\ procs[q].started

\* Both operations found no bond current, both switched, and both wrapped
\* exchanges are in flight.
C26_Witness ==
  /\ \A p \in Procs :
       /\ procs[p].dec = 1 /\ procs[p].callBond = NoBond
       /\ procs[p].sw = "ok" /\ procs[p].swGets = 1
       /\ WrappedInFlight(procs[p])
  /\ currentBond = 1

\* C30: the page that a wrapped operation fetched is recorded in the cache
\* with the bond that was current when its exchange left.
C30_StampIsBondOfExchange ==
  [][\A p \in Procs :
       (/\ procs[p].pc = "wait" /\ procs[p].req.purpose = "operation"
        /\ procs'[p].pc = "done"
        /\ ~IsBondIndependent(procs[p].req.path))
         => Href(cache'[<<procs[p].req.method, procs[p].req.path>>].bond)
              = Href(procs[p].issuedBond)]_vars

\* C28: a file is never built or updated from a form that lacks the id or
\* the key: such an update fails, and no file has an undefined id or key.
C28_FormWithoutIdOrKeyFails ==
  /\ \A i \in DOMAIN heap : heap[i].id # None /\ heap[i].key # None
  /\ (/\ last.op = "update"
      /\ last.data.form # NoForm
      /\ (last.data.form.id = None \/ last.data.form.key = None))
       => ~last.ok

\* C29: an update with invalid data (no form, and no id or no key) leaves
\* the file as it was: title, description, id, key, form and closed flag.
C29_InvalidUpdateChangesNothing ==
  [][(last'.op = "update" /\ ~last'.ok /\ dl' = dl) => heap' = heap]_vars

\* The unreserved characters of RFC 3986: A-Z a-z 0-9 - _ . ~
Unreserved == (65..90) \cup (97..122) \cup (48..57) \cup {45, 95, 46, 126}

\* C23: in the body sent by post and fileResponseByPost every character
\* of the name and of the value that is not unreserved is percent-escaped:
\* the body holds unreserved characters, '%' escapes and the one '=' that
\* separates name and value; in particular no '+' stands for a space.
C23_StrictPercentEncoding ==
  enc.done
    => /\ \A i \in DOMAIN enc.body : enc.body[i] \in Unreserved \cup {37, 61}
       /\ Cardinality({i \in DOMAIN enc.body : enc.body[i] = 61}) = 1

\* C27: viewState returns the value of the hidden javax.faces.ViewState
\* field of the body on every access, undefined when the body has no such
\* field, and never throws.
C27_ViewStatePresence ==
  /\ ~view.threw
  /\ view.reads > 0
       => view.ret = (IF \E i \in DOMAIN view.body :
                              IsViewStateInput(view.body[i])
                      THEN SelectSeq(view.body, IsViewStateInput)[1].value
                      ELSE None)

\* The second access of a Page with the field, and of one without it.
C27_Witness ==
  /\ view.reads = MaxReads
  /\ view.body # << >>
  /\ \/ view.ret = "v2"
     \/ \A i \in DOMAIN view.body : ~IsViewStateInput(view.body[i])

\* C31: the exchange is sent with the options that afterHTTPOptions
\* produced: while a request of a call chain is in flight, its headers are
\* the headers of the options the hook returned, for page requests and for
\* file downloads, whether the hook returned its argument or a new object.
C31_SentWithHookOptions ==
  \A p \in Procs :
    procs[p].pc = "wait" => procs[p].headers = procs[p].sessionHttpOptions

\* C32: the current bond of the Bond Controller changes only as the end of
\* a switch exchange: every step that changes it settles the exchange of a
\* call chain that had asked for a GET of the bond-switch URL of its
\* decorator, the last page of the followed redirects has status 200, and
\* the new current bond is that decorator's bond.
C32_BondChangesOnlyBySwitch ==
  [][currentBond' # currentBond
       => \E p \in Procs :
            /\ procs[p].pc = "wait"
            /\ procs[p].req.purpose = "switchBond"
            /\ procs[p].sw = "inflight"
            /\ procs[p].swGets >= 1
            /\ procs'[p].sw = "ok"
            /\ procs'[p].swStatus = 200
            /\ currentBond' = bondSwitchUrl(procs[p].dec)]_vars

\* A switch from one bond to another has been committed.
C32_Witness ==
  \E p \in Procs :
    /\ procs[p].sw = "ok"
    /\ procs[p].swStatus = 200
    /\ procs[p].callBond # NoBond
    /\ Href(procs[p].callBond) # Href(currentBond)
    /\ currentBond = bondSwitchUrl(procs[p].dec)

\* A sequence of unreserved characters and of escapes '%' + two
\* hexadecimal digits.
RECURSIVE WellFormed(_)
WellFormed(out) ==
  IF out = << >> THEN TRUE
  ELSE IF out[1] \in Unreserved THEN WellFormed(Tail(out))
  ELSE /\ out[1] = 37
       /\ Len(out) >= 3
       /\ {out[2], out[3]} \subseteq (48..57) \cup (65..70) \cup (97..102)
       /\ WellFormed(SubSeq(out, 4, Len(out)))

\* C33: the output of encodeWithRFC3986 is well formed for every string:
\* it is made of unreserved characters and %HH triplets only, and a string
\* of unreserved characters is returned unchanged.
C33_WellFormedEscapes ==
  enc.done
    => /\ WellFormed(enc.body)
       /\ (\A i \in DOMAIN enc.value : enc.value[i] \in Unreserved)
            => enc.body = enc.value

\* The period a course row stands under (0: none) and the newest period
\* of a table body (0: the body has no period row).
RECURSIVE PeriodOf(_, _)
PeriodOf(rows, i) ==
  IF i = 0 THEN 0 ELSE IF rows[i].periodo THEN rows[i].label
  ELSE PeriodOf(rows, i - 1)

Newest(rows) ==
  IF \E i \in DOMAIN rows : rows[i].periodo
  THEN CHOOSE n \in PeriodLabels :
         /\ \E i \in DOMAIN rows : rows[i].periodo /\ rows[i].label = n
         /\ \A i \in DOMAIN rows : rows[i].periodo => rows[i].label <= n
  ELSE 0

\* C34: getCourses with allPeriods false returns exactly the courses of
\* the newest period of the table, whatever the order of the period rows;
\* with allPeriods true it returns the courses of every period.
C34_NewestPeriodCourses ==
  LET rows == bond.coursesPage.rows
      courses == {i \in DOMAIN rows : ~rows[i].periodo /\ PeriodOf(rows, i) # 0}
      returned == {bond.list[k].id : k \in DOMAIN bond.list}
  IN  bond.pc = "done"
        => returned = IF bond.allPeriods THEN courses
                      ELSE {i \in courses : PeriodOf(rows, i) = Newest(rows)}

C36_ControllerAndCacheAgree ==
  /\ currentBond = cacheBond
  /\ \A p \in Procs :
       (procs[p].sw = "failed" /\ procs[p].alone)
         => currentBond = procs[p].callBond

\* One call chain has committed its switch while another is suspended.
C36_Witness ==
  \E p, q \in Procs :
    /\ p # q
    /\ procs[p].sw = "ok"
    /\ procs[p].pc = "wait"
    /\ procs[q].pc = "wait"
    /\ currentBond = bondSwitchUrl(procs[p].dec)
    /\ cacheBond # NoBond

\* C37: the identity store of sharedReturn is stable: an id stays mapped
\* to the instance first returned for it by that object and method, and a
\* later call with the id returns that instance; the stores of different
\* methods or factory objects hold no instance in common; no store maps
\* the empty id, and a call with the empty id that returns an instance has
\* run the original method.
C37_StoreStableAndIdentified ==
  /\ \A t \in Targets, id \in NaturalIds :
       firstOf[t][id] # 0 => store[t][id] = firstOf[t][id]
  /\ (last.op = "materialize" /\ last.before # 0) => last.ret = last.before
  /\ \A t, u \in Targets, id1, id2 \in NaturalIds :
       (t # u /\ store[t][id1] # 0) => store[t][id1] # store[u][id2]
  /\ \A t \in Targets : store[t][""] = 0
  /\ (last.op = "materialize" /\ last.data.id = "" /\ last.ret # 0)
       => last.constructed

\* An id is mapped by two stores, and the last call was answered from one.
C37_Witness ==
  /\ last.op = "materialize"
  /\ last.before # 0
  /\ \E t, u \in Targets :
       t # u /\ store[t][last.data.id] # 0 /\ store[u][last.data.id] # 0

\* C38: download on an open file that holds neither a form nor a key
\* fails with the key-missing error: no transport call leaves, no refresh
\* is asked for and nothing is tried again.
C38_MissingKeyFailsAtOnce ==
  (dl.bareAtCall /\ ~dl.closedAtCall)
    => /\ dl.pc = "failed"
       /\ dl.err = "key is missing"
       /\ dl.attempts = 0
       /\ dl.vias = << >>
       /\ dl.refreshed = 0

\* download was called on an open file without form and key, which an
\* earlier download had left so.
C38_Witness ==
  /\ dl.bareAtCall
  /\ ~dl.closedAtCall
  /\ dl.pc = "failed"
  /\ last.op = "download"
  /\ ~heap[dl.inst].isClosed

====
